---- MODULE Spec2Model ----
(***************************************************************************)
(* repo_miner: fetch_commits, fetch_issues and merge_and_summarize of      *)
(* src/repo_miner.py, with the GitHub provider as the environment.         *)
(*                                                                         *)
(* Python's None is the empty tuple and a present value v the 1-tuple      *)
(* <<v>>, so an optional value is always a sequence.  Timestamps are whole *)
(* hours since an epoch; a commit message is a sequence of characters.     *)
(***************************************************************************)
EXTENDS Integers, Sequences, FiniteSets, TLC

VARIABLES
    providerCommits,  \* what repo.get_commits() iterates, in provider order
    providerIssues,   \* what repo.get_issues(state="all") iterates
    commits_df,       \* merge_and_summarize's commits table
    issues_df,        \* merge_and_summarize's issues table
    call,             \* the last operation called and its arguments
    result,           \* what that operation returned or raised
    providerCalls,    \* provider calls made by the last operation, in order
    printed           \* lines the last operation printed

vars == <<providerCommits, providerIssues, commits_df, issues_df,
          call, result, providerCalls, printed>>

----------------------------------------------------------------------------
(* Bounds *)

MaxCommits == 2
MaxMsgLen == 2
MaxIssues == 3
MaxRows == 3

----------------------------------------------------------------------------
(* Python values *)

None == <<>>
Some(v) == <<v>>
IsNone(o) == o = <<>>
Val(o) == o[1]

\* Truthiness of an Optional[int]: None and 0 are falsy.
Truthy(o) == ~IsNone(o) /\ Val(o) # 0

Min(a, b) == IF a <= b THEN a ELSE b

\* datetime.isoformat(): the text "<date>T<time>", here (day, hour of day).
isoformat(t) == [day |-> t \div 24, hour |-> t % 24]

\* timedelta.days of (later - earlier): whole days, rounded towards -infinity.
days(later, earlier) == (later - earlier) \div 24

NL == "\n"
Chars == {"a", NL}

COMMIT_COLUMNS == <<"sha", "author", "email", "date", "message">>

ISSUE_COLUMNS == <<"id", "number", "title", "user", "state", "created_at",
                   "closed_at", "open_duration_days", "comments">>

\* pd.DataFrame(records, columns=...): the column list and the rows in order.
DataFrame(records, columns) ==
    [kind |-> "table", columns |-> columns, rows |-> records,
     error |-> "", names |-> ""]

\* An exception leaving the operation: its class and the repository it names.
Raised(class, repo_name) ==
    [kind |-> "raised", columns |-> <<>>, rows |-> <<>>,
     error |-> class, names |-> repo_name]

NoCall ==
    [op |-> "", repo_name |-> "", max |-> None, state |-> "", github_token |-> None]

\* main() dispatches one sub-command per run: an operation starts only in a
\* run that has not dispatched yet.
NotDispatched == call = NoCall

NoResult ==
    [kind |-> "none", columns |-> <<>>, rows |-> <<>>, error |-> "", names |-> ""]

----------------------------------------------------------------------------
(* The provider *)

KnownRepo == "octocat/Hello-World"
RepoNames == {KnownRepo, "no/such-repo"}

\* g.get_repo(repo_name): a repository object for a repository the provider
\* has; for any other name the client either hands back nothing (a falsy
\* value) or raises its own exception.
GetRepoOutcomes(repo_name) ==
    IF repo_name = KnownRepo THEN {"repo"} ELSE {"falsy", "raises"}

\* The class of the exception the client raises for a repository it cannot
\* find; it is the provider's own and carries no repo_name of this program.
ProviderException == "exception raised by get_repo"

\* commit.commit.author objects: name, email and an optional date.
CommitAuthors ==
    << [name |-> "Alice", email |-> "a@example.com", date |-> Some(49)],
       [name |-> "Bob", email |-> "b@example.com", date |-> None] >>

Messages == UNION { [1..n -> Chars] : n \in 0..MaxMsgLen }

\* The commit objects of a repository: sha i for the i-th commit, its author
\* taken in turn from CommitAuthors, its message any of Messages.
CommitLists ==
    UNION { { [i \in 1..n |-> [sha |-> i,
                               author |-> CommitAuthors[((i - 1) % Len(CommitAuthors)) + 1],
                               message |-> m[i]]] :
                m \in [1..n -> Messages] } :
            n \in 0..MaxCommits }

----------------------------------------------------------------------------
(* fetch_commits *)

\* if max_commits is not None and max_commits <= 0
EdgeCaseNonPositive_Strict(max_commits) ==
    ~IsNone(max_commits) /\ Val(max_commits) < 0
EdgeCaseNonPositive(max_commits) == ~IsNone(max_commits) /\ Val(max_commits) <= 0

\* commits[:max_commits] for max_commits > 0
Slice_OffByOne(commits, n) == SubSeq(commits, 1, Min(n - 1, Len(commits)))
Slice(commits, n) == SubSeq(commits, 1, Min(n, Len(commits)))

\* Index of the first newline of msg, 0 when it has none.
RECURSIVE FindNewline(_, _)
FindNewline(msg, i) ==
    IF i > Len(msg) THEN 0
    ELSE IF msg[i] = NL THEN i
    ELSE FindNewline(msg, i + 1)

\* message.split('\n', 1)[0]
FirstLine_KeepsNewline(msg) ==
    LET k == FindNewline(msg, 1)
    IN  IF k = 0 THEN msg ELSE SubSeq(msg, 1, k)
FirstLine(msg) ==
    LET k == FindNewline(msg, 1)
    IN  IF k = 0 THEN msg ELSE SubSeq(msg, 1, k - 1)

CommitRecord(commit) ==
    [sha |-> commit.sha,
     author |-> commit.author.name,
     email |-> commit.author.email,
     date |-> IF ~IsNone(commit.author.date)
              THEN Some(isoformat(Val(commit.author.date))) ELSE None,
     message |-> FirstLine(commit.message)]

NormalizeCommits(commits) == [i \in 1..Len(commits) |-> CommitRecord(commits[i])]

\* if not repo
RepoMissing_NoCheck(outcome) == FALSE
RepoMissing(outcome) == outcome = "falsy"

\* The log entry of g.get_repo(repo_name) with what came back.
GetRepoCall(outcome) ==
    IF outcome = "repo" THEN "get_repo -> repo"
    ELSE IF outcome = "falsy" THEN "get_repo -> falsy"
    ELSE "get_repo raises"

TokenNotice(github_token) ==
    IF IsNone(github_token) THEN <<"GITHUB_TOKEN not set">> ELSE <<>>

ClientCall(github_token) ==
    IF IsNone(github_token) THEN "Github()" ELSE "Github(auth)"

\* The whole of fetch_commits: [result, calls, printed].
fetch_commits(repo_name, max_commits, github_token, outcome) ==
    IF EdgeCaseNonPositive(max_commits)
    THEN [result |-> DataFrame(<<>>, COMMIT_COLUMNS), calls |-> <<>>,
          printed |-> <<>>]
    ELSE IF outcome = "raises"
    THEN [result |-> Raised(ProviderException, ""),
          calls |-> <<ClientCall(github_token), GetRepoCall(outcome)>>,
          printed |-> TokenNotice(github_token)]
    ELSE IF RepoMissing(outcome)
    THEN [result |-> Raised("ValueError", repo_name),
          calls |-> <<ClientCall(github_token), GetRepoCall(outcome)>>,
          printed |-> TokenNotice(github_token)]
    ELSE LET all == providerCommits
             commits == IF ~IsNone(max_commits)
                        THEN Slice(all, Val(max_commits)) ELSE all
         IN  [result |-> DataFrame(NormalizeCommits(commits), COMMIT_COLUMNS),
              calls |-> <<ClientCall(github_token), GetRepoCall(outcome),
                          "get_commits", "close">>,
              printed |-> TokenNotice(github_token)
                          \o <<"Fetching commits", "Normalizing commit data">>]

Tokens == {None, Some("fake-token")}
MaxArgs(n) == {None} \cup { Some(k) : k \in -1..(n + 1) }

FetchCommits ==
    \E repo_name \in RepoNames, max_commits \in MaxArgs(MaxCommits),
       github_token \in Tokens :
      \E outcome \in GetRepoOutcomes(repo_name) :
        LET r == fetch_commits(repo_name, max_commits, github_token, outcome)
        IN  /\ NotDispatched
            /\ call' = [op |-> "fetch_commits", repo_name |-> repo_name,
                         max |-> max_commits, state |-> "",
                         github_token |-> github_token]
            /\ result' = r.result
            /\ providerCalls' = r.calls
            /\ printed' = r.printed
            /\ UNCHANGED <<providerCommits, providerIssues, commits_df, issues_df>>

InitCommits ==
    /\ providerCommits \in CommitLists
    /\ providerIssues = <<>>
    /\ commits_df = <<>>
    /\ issues_df = <<>>
    /\ call = NoCall
    /\ result = NoResult
    /\ providerCalls = <<>>
    /\ printed = <<>>

NextCommits == FetchCommits

SpecCommits == InitCommits /\ [][NextCommits]_vars

----------------------------------------------------------------------------
(* fetch_issues *)

CreatedAt == Some(6)

\* An item's state with its closed_at: the provider reports closed_at for a
\* closed item and null for an open one.
Lifecycles ==
    { [state |-> "open", closed_at |-> None],
      [state |-> "closed", closed_at |-> Some(20)],
      [state |-> "closed", closed_at |-> Some(60)] }

\* issue.pull_request: None for a plain issue, an object for a pull request.
PullRequestFlags == {None, Some("pull_request")}

\* The items of a repository's issue list: id i and number 100 + i for the
\* i-th item; plain issues and pull requests alike are open or closed.
IssueLists ==
    UNION { { [i \in 1..n |-> [id |-> i, number |-> 100 + i, title |-> "Issue",
                               user |-> "alice", state |-> k[i].life.state,
                               created_at |-> CreatedAt,
                               closed_at |-> k[i].life.closed_at,
                               comments |-> 0,
                               pull_request |-> k[i].pull_request]] :
                k \in [1..n -> [life : Lifecycles,
                                pull_request : PullRequestFlags]] } :
            n \in 0..MaxIssues }

StateFilters == {"all", "open", "closed"}

\* repo.get_issues(state=state): the provider's server-side filter.
get_issues(state) ==
    SelectSeq(providerIssues, LAMBDA issue : state = "all" \/ issue.state = state)

\* if max_issues and idx >= max_issues
MaxReached_IsNotNone(max_issues, idx) ==
    ~IsNone(max_issues) /\ idx >= Val(max_issues)
MaxReached(max_issues, idx) == Truthy(max_issues) /\ idx >= Val(max_issues)

\* if issue.pull_request is not None
IsPullRequest_Inverted(issue) == IsNone(issue.pull_request)
IsPullRequest(issue) == ~IsNone(issue.pull_request)

IssueRecord_ZeroWhenOpen(issue) ==
    [id |-> issue.id,
     number |-> issue.number,
     title |-> issue.title,
     user |-> issue.user,
     state |-> issue.state,
     created_at |-> IF ~IsNone(issue.created_at)
                    THEN Some(isoformat(Val(issue.created_at))) ELSE None,
     closed_at |-> IF ~IsNone(issue.closed_at)
                   THEN Some(isoformat(Val(issue.closed_at))) ELSE None,
     open_duration_days |-> IF ~IsNone(issue.closed_at)
                            THEN Some(days(Val(issue.closed_at), Val(issue.created_at)))
                            ELSE Some(0),
     comments |-> issue.comments]

IssueRecord_FalsyDuration(issue) ==
    [id |-> issue.id,
     number |-> issue.number,
     title |-> issue.title,
     user |-> issue.user,
     state |-> issue.state,
     created_at |-> IF ~IsNone(issue.created_at)
                    THEN Some(isoformat(Val(issue.created_at))) ELSE None,
     closed_at |-> IF ~IsNone(issue.closed_at)
                   THEN Some(isoformat(Val(issue.closed_at))) ELSE None,
     open_duration_days |-> IF ~IsNone(issue.closed_at)
                               /\ days(Val(issue.closed_at), Val(issue.created_at)) # 0
                            THEN Some(days(Val(issue.closed_at), Val(issue.created_at)))
                            ELSE None,
     comments |-> issue.comments]

IssueRecord(issue) ==
    [id |-> issue.id,
     number |-> issue.number,
     title |-> issue.title,
     user |-> issue.user,
     state |-> issue.state,
     created_at |-> IF ~IsNone(issue.created_at)
                    THEN Some(isoformat(Val(issue.created_at))) ELSE None,
     closed_at |-> IF ~IsNone(issue.closed_at)
                   THEN Some(isoformat(Val(issue.closed_at))) ELSE None,
     open_duration_days |-> IF ~IsNone(issue.closed_at)
                            THEN Some(days(Val(issue.closed_at), Val(issue.created_at)))
                            ELSE None,
     comments |-> issue.comments]

\* for idx, issue in enumerate(issues): idx is 0-based and counts every item.
RECURSIVE IssueLoop(_, _, _, _)
IssueLoop(issues, idx, max_issues, records) ==
    IF idx >= Len(issues) THEN records
    ELSE IF MaxReached(max_issues, idx) THEN records
    ELSE IF IsPullRequest(issues[idx + 1])
    THEN IssueLoop(issues, idx + 1, max_issues, records)
    ELSE IssueLoop(issues, idx + 1, max_issues,
                   Append(records, IssueRecord(issues[idx + 1])))

\* The whole of fetch_issues: [result, calls, printed].
fetch_issues(repo_name, state, max_issues, github_token, outcome) ==
    IF outcome = "raises"
    THEN [result |-> Raised(ProviderException, ""),
          calls |-> <<ClientCall(github_token), GetRepoCall(outcome)>>,
          printed |-> TokenNotice(github_token)]
    ELSE IF RepoMissing(outcome)
    THEN [result |-> Raised("ValueError", repo_name),
          calls |-> <<ClientCall(github_token), GetRepoCall(outcome)>>,
          printed |-> TokenNotice(github_token)]
    ELSE [result |-> DataFrame(IssueLoop(get_issues(state), 0, max_issues, <<>>),
                               ISSUE_COLUMNS),
          calls |-> <<ClientCall(github_token), GetRepoCall(outcome), "get_issues",
                      "close">>,
          printed |-> TokenNotice(github_token)]

FetchIssues ==
    \E repo_name \in RepoNames, state \in StateFilters,
       max_issues \in MaxArgs(MaxIssues), github_token \in Tokens :
      \E outcome \in GetRepoOutcomes(repo_name) :
        LET r == fetch_issues(repo_name, state, max_issues, github_token, outcome)
        IN  /\ NotDispatched
            /\ call' = [op |-> "fetch_issues", repo_name |-> repo_name,
                         max |-> max_issues, state |-> state,
                         github_token |-> github_token]
            /\ result' = r.result
            /\ providerCalls' = r.calls
            /\ printed' = r.printed
            /\ UNCHANGED <<providerCommits, providerIssues, commits_df, issues_df>>

InitIssues ==
    /\ providerCommits = <<>>
    /\ providerIssues \in IssueLists
    /\ commits_df = <<>>
    /\ issues_df = <<>>
    /\ call = NoCall
    /\ result = NoResult
    /\ providerCalls = <<>>
    /\ printed = <<>>

NextIssues == FetchIssues

SpecIssues == InitIssues /\ [][NextIssues]_vars

----------------------------------------------------------------------------
(* merge_and_summarize *)

\* The tables read back from the CSV files, with the columns the report
\* reads: author of a commit row; state and open_duration_days of an issue
\* row (an empty cell is None).
AuthorNames == {"X", "Y"}
CommitTables ==
    UNION { [1..n -> [author : AuthorNames]] : n \in 0..MaxRows }
IssueTables ==
    UNION { [1..n -> [state : {"open", "closed"},
                      open_duration_days : {None, Some(0), Some(2)}]] :
            n \in 0..MaxRows }

TopN == 5

CountOf(author, commits) ==
    Cardinality({ i \in DOMAIN commits : commits[i].author = author })

FirstIndex(author, commits) ==
    CHOOSE i \in DOMAIN commits :
        /\ commits[i].author = author
        /\ \A j \in 1..(i - 1) : commits[j].author # author

\* commits['author'].value_counts(): authors by falling count, equal counts
\* in the order first met.
RECURSIVE ValueCountsOf(_, _)
ValueCountsOf(commits, remaining) ==
    IF remaining = {} THEN <<>>
    ELSE LET top == CHOOSE a \in remaining : \A b \in remaining \ {a} :
                        \/ CountOf(a, commits) > CountOf(b, commits)
                        \/ /\ CountOf(a, commits) = CountOf(b, commits)
                           /\ FirstIndex(a, commits) < FirstIndex(b, commits)
         IN  <<[author |-> top, count |-> CountOf(top, commits)]>>
             \o ValueCountsOf(commits, remaining \ {top})

value_counts(commits) ==
    ValueCountsOf(commits, { commits[i].author : i \in DOMAIN commits })

head(s, n) == SubSeq(s, 1, Min(n, Len(s)))

\* issues[issues['state'] == 'closed']
ClosedIssues(issues) == SelectSeq(issues, LAMBDA row : row.state = "closed")

\* len(closed_issues) / len(issues) if not issues.empty else 0, as a fraction
IssueCloseRate_FloorDiv(issues) ==
    IF Len(issues) # 0
    THEN [num |-> Len(SelectSeq(issues, LAMBDA row : row.state = "closed"))
                  \div Len(issues), den |-> 1]
    ELSE [num |-> 0, den |-> 1]
IssueCloseRate(issues) ==
    IF Len(issues) # 0
    THEN [num |-> Len(ClosedIssues(issues)), den |-> Len(issues)]
    ELSE [num |-> 0, den |-> 1]

RECURSIVE SumDurations(_)
SumDurations(rows) ==
    IF rows = <<>> THEN 0
    ELSE Val(Head(rows).open_duration_days) + SumDurations(Tail(rows))

\* closed_issues['open_duration_days'].mean() if not closed_issues.empty else 0:
\* the mean skips empty cells and is NaN (None) when every cell is empty.
AvgOpenDuration(issues) ==
    LET closed == ClosedIssues(issues)
        cells == SelectSeq(closed, LAMBDA row : ~IsNone(row.open_duration_days))
    IN  IF Len(closed) = 0 THEN Some([num |-> 0, den |-> 1])
        ELSE IF Len(cells) = 0 THEN None
        ELSE Some([num |-> SumDurations(cells), den |-> Len(cells)])

\* f"{x:.2f}" of x = num/den >= 0, in hundredths: the nearest hundredth, an
\* exact half going to the even one.
Format2f(num, den) ==
    LET q == (100 * num) \div den
        r == (100 * num) % den
    IN  IF 2 * r > den THEN q + 1
        ELSE IF 2 * r < den THEN q
        ELSE IF q % 2 = 0 THEN q ELSE q + 1

\* The whole of merge_and_summarize: what it prints.
merge_and_summarize(commits, issues) ==
    LET top_committers == head(value_counts(commits), TopN)
        issue_close_rate == IssueCloseRate(issues)
        avg_open_duration == AvgOpenDuration(issues)
    IN  [kind |-> "report",
         top_committers |-> top_committers,
         issue_close_rate |-> issue_close_rate,
         close_rate_text |-> Format2f(issue_close_rate.num, issue_close_rate.den),
         avg_open_duration |-> avg_open_duration,
         avg_text |-> IF IsNone(avg_open_duration) THEN None
                      ELSE Some(Format2f(Val(avg_open_duration).num,
                                         Val(avg_open_duration).den))]

Summarize ==
    /\ NotDispatched
    /\ call' = [op |-> "summarize", repo_name |-> "", max |-> None,
                state |-> "", github_token |-> None]
    /\ result' = merge_and_summarize(commits_df, issues_df)
    /\ providerCalls' = <<>>
    /\ printed' = <<"Top 5 committers:", "Issue close rate", "Avg. issue open duration">>
    /\ UNCHANGED <<providerCommits, providerIssues, commits_df, issues_df>>

InitSummarize ==
    /\ providerCommits = <<>>
    /\ providerIssues = <<>>
    /\ commits_df \in CommitTables
    /\ issues_df \in IssueTables
    /\ call = NoCall
    /\ result = NoResult
    /\ providerCalls = <<>>
    /\ printed = <<>>

NextSummarize == Summarize

SpecSummarize == InitSummarize /\ [][NextSummarize]_vars

----------------------------------------------------------------------------
(* Either fetch operation, on a repository with commits or with issues *)

InitFetch == InitCommits \/ InitIssues

NextFetch ==
    \/ FetchCommits
    \/ FetchIssues

SpecFetch == InitFetch /\ [][NextFetch]_vars

----------------------------------------------------------------------------
(* Properties *)

ReturnedTable(op) == call.op = op /\ result.kind = "table"

\* The items the provider hands to the last fetch_issues call, and the
\* plain issues among them, both in provider order.
Listed == get_issues(call.state)
ListedIssues == SelectSeq(Listed, LAMBDA issue : IsNone(issue.pull_request))

Ids(rows) == [i \in 1..Len(rows) |-> rows[i].id]

\* C1: in fetch_issues with a positive max_count, pull requests do not count
\* against max_count: the output is exactly the first
\* min(max_count, number of non-PR items) non-PR items, in provider order.
C1_PullRequestsNotCounted ==
    (ReturnedTable("fetch_issues") /\ ~IsNone(call.max) /\ Val(call.max) > 0)
    => Ids(result.rows)
         = Ids(SubSeq(ListedIssues, 1, Min(Val(call.max), Len(ListedIssues))))

\* C2: no item flagged as a pull request is a row of the fetch_issues output,
\* whatever the state filter and max_count.
C2_NoPullRequestRow ==
    ReturnedTable("fetch_issues")
    => \A i \in DOMAIN result.rows : \A j \in DOMAIN providerIssues :
          providerIssues[j].id = result.rows[i].id
          => IsNone(providerIssues[j].pull_request)

\* A call that passed over a pull request and still produced a row.
C2_Witness ==
    /\ ReturnedTable("fetch_issues")
    /\ call.state = "closed"
    /\ Len(Listed) >= 2
    /\ ~IsNone(Listed[1].pull_request)
    /\ Len(result.rows) >= 1

\* C3: for max_count <= 0 fetch_commits returns a zero-row table with the
\* columns sha, author, email, date, message in that order, and makes no
\* provider call: no client, no repository lookup, no commit listing.
C3_NonPositiveMaxIsEmpty ==
    (call.op = "fetch_commits" /\ ~IsNone(call.max) /\ Val(call.max) <= 0)
    => /\ result.kind = "table"
       /\ result.rows = <<>>
       /\ result.columns = <<"sha", "author", "email", "date", "message">>
       /\ providerCalls = <<>>

\* max_count = 0 on a repository that has commits.
C3_Witness ==
    /\ call.op = "fetch_commits"
    /\ call.max = Some(0)
    /\ call.repo_name = KnownRepo
    /\ Len(providerCommits) >= 1
    /\ result.kind = "table"

\* C4: in fetch_issues a max_count of 0 or an absent max_count is unbounded:
\* the output holds every non-PR item the provider returns, in provider order.
C4_ZeroOrAbsentMaxIsUnbounded ==
    (ReturnedTable("fetch_issues") /\ (IsNone(call.max) \/ Val(call.max) = 0))
    => Ids(result.rows) = Ids(ListedIssues)

\* max_count = 0 with several plain issues behind a pull request.
C4_Witness ==
    /\ ReturnedTable("fetch_issues")
    /\ call.max = Some(0)
    /\ Len(Listed) = MaxIssues
    /\ ~IsNone(Listed[1].pull_request)
    /\ Len(result.rows) >= 2

\* C5: every row of a fetch_issues output whose state is not closed has
\* closed_at null and open_duration_days null.
C5_OpenRowsHaveNoClosure ==
    ReturnedTable("fetch_issues")
    => \A i \in DOMAIN result.rows :
          result.rows[i].state # "closed"
          => /\ IsNone(result.rows[i].closed_at)
             /\ IsNone(result.rows[i].open_duration_days)

\* An output with an open row beside a closed one.
C5_Witness ==
    /\ ReturnedTable("fetch_issues")
    /\ \E i, j \in DOMAIN result.rows :
          /\ result.rows[i].state = "open"
          /\ result.rows[j].state = "closed"

\* C6 as stated: for every row, state == closed holds exactly when
\* (closed_at is non-null exactly when open_duration_days is non-null).
C6_ClosedIffFieldsAgree ==
    ReturnedTable("fetch_issues")
    => \A i \in DOMAIN result.rows :
          (result.rows[i].state = "closed")
          <=> (~IsNone(result.rows[i].closed_at)
               <=> ~IsNone(result.rows[i].open_duration_days))

\* C6 as amended: for every row, closed_at is non-null exactly when
\* open_duration_days is non-null, whatever the row's state.
C6_ClosedAtIffDuration ==
    ReturnedTable("fetch_issues")
    => \A i \in DOMAIN result.rows :
          ~IsNone(result.rows[i].closed_at)
          <=> ~IsNone(result.rows[i].open_duration_days)

\* A closed row whose duration is zero days beside an open row.
C6_Witness ==
    /\ ReturnedTable("fetch_issues")
    /\ \E i, j \in DOMAIN result.rows :
          /\ result.rows[i].open_duration_days = Some(0)
          /\ ~IsNone(result.rows[i].closed_at)
          /\ IsNone(result.rows[j].closed_at)

\* C7: for max_count absent or > 0 fetch_commits returns one row per provider
\* commit in provider order, cut to the first max_count when it is given:
\* min(max_count, number of commits) rows, row i being provider commit i.
C7_RowsAreFirstCommits ==
    (call.op = "fetch_commits" /\ call.repo_name = KnownRepo
        /\ (IsNone(call.max) \/ Val(call.max) > 0))
    => /\ result.kind = "table"
       /\ Len(result.rows) = IF IsNone(call.max) THEN Len(providerCommits)
                             ELSE Min(Val(call.max), Len(providerCommits))
       /\ \A i \in DOMAIN result.rows : result.rows[i].sha = providerCommits[i].sha

\* A call cut short by max_count.
C7_Witness ==
    /\ ReturnedTable("fetch_commits")
    /\ call.max = Some(1)
    /\ Len(providerCommits) = MaxCommits
    /\ Len(result.rows) = 1

\* C8: every row's message is the raw message up to and excluding its first
\* newline, the whole message when it has none.
C8_MessageIsFirstLine ==
    ReturnedTable("fetch_commits")
    => \A i \in DOMAIN result.rows :
          LET raw == providerCommits[i].message
              msg == result.rows[i].message
          IN  /\ Len(msg) <= Len(raw)
              /\ \A k \in 1..Len(msg) : msg[k] = raw[k] /\ msg[k] # NL
              /\ Len(msg) < Len(raw) => raw[Len(msg) + 1] = NL

\* A row whose raw message goes on after its first newline.
C8_Witness ==
    /\ ReturnedTable("fetch_commits")
    /\ \E i \in DOMAIN result.rows :
          /\ providerCommits[i].message = <<"a", NL>>
          /\ result.rows[i].message = <<"a">>
    /\ \E i \in DOMAIN result.rows :
          /\ providerCommits[i].message = <<NL, "a">>
          /\ result.rows[i].message = <<>>

Resolutions == { k \in DOMAIN providerCalls :
                    providerCalls[k] \in {"get_repo -> repo", "get_repo -> falsy",
                                          "get_repo raises"} }

Unresolved == \E k \in DOMAIN providerCalls :
                 providerCalls[k] \in {"get_repo -> falsy", "get_repo raises"}

ClosedCount == Cardinality({ i \in DOMAIN issues_df : issues_df[i].state = "closed" })

\* C10: summarize reports the close rate (closed rows) / (all rows) of a
\* non-empty issue table, printed to the nearest hundredth (2 of 3 prints
\* 0.67), and reports 0 for an empty table without raising.
C10_CloseRate ==
    call.op = "summarize"
    => /\ result.kind = "report"
       /\ LET rate == result.issue_close_rate
              text == result.close_rate_text
              total == Len(issues_df)
          IN  IF total = 0
              THEN rate.num = 0 /\ text = 0
              ELSE /\ rate.num * total = ClosedCount * rate.den
                   /\ 2 * (100 * ClosedCount - text * total) <= total
                   /\ 2 * (text * total - 100 * ClosedCount) <= total
                   /\ (ClosedCount = 2 /\ total = 3) => text = 67

\* Two closed rows of three.
C10_Witness ==
    /\ call.op = "summarize"
    /\ Len(issues_df) = 3
    /\ ClosedCount = 2
    /\ result.close_rate_text = 67

====
